---- MODULE Spec2Model ----
(***************************************************************************)
(* Contract health scoring backend (src/unnamed/part_003): the scoring     *)
(* function calculateHealthScore, the tolerant JSON extractor extractJSON  *)
(* and the contracts.json record store behind the HTTP handlers.           *)
(*                                                                         *)
(* Four specifications share the variables:                                *)
(*   SpecScore    applies calculateHealthScore to bounded dimension sets,  *)
(*   SpecExtract  applies extractJSON to bounded texts,                    *)
(*   Spec         interleaves upload / update-company / delete / replace   *)
(*                requests over the store, one action per synchronous      *)
(*                stretch of a handler (from one await to the next),       *)
(*   SpecLegacy   is Spec started on a store written by the earlier        *)
(*                variant of the server (src/backendserver.js).            *)
(***************************************************************************)
EXTENDS Integers, Sequences, FiniteSets, TLC

VARIABLES
    contracts,      \* the parsed content of ./contracts.json (a sequence of records)
    requests,       \* the requests in flight: each is a handler suspended at an await
    response,       \* the response sent last, with the request it answers
    clock,          \* the time new Date() returned last; every reading is later
    arrived,        \* the number of requests that have arrived
    idCounter,      \* number of contract ids / file ids generated so far
    dimsA, resA,    \* scoring harness: a dimension set and calculateHealthScore of it
    dimsB, resB,    \* scoring harness: the same set with one dimension changed
    text,           \* extractor harness: the text handed to extractJSON
    extracted       \* extractor harness: what extractJSON returned or threw

vars == <<contracts, requests, response, clock, arrived, idCounter, dimsA, resA, dimsB, resB, text, extracted>>

(***************************************************************************)
(* JavaScript values that reach the scorer. A dimension is a number, is    *)
(* missing (undefined) or is a non-numeric non-empty string such as        *)
(* "high"; arithmetic on the latter gives NaN.                             *)
(***************************************************************************)
Num(n) == [t |-> "number", n |-> n]
Undef  == [t |-> "undefined", n |-> 0]
Str    == [t |-> "string", n |-> 0]
NaN    == [t |-> "NaN", n |-> 0]

IsNum(v) == v.t = "number"

\* JavaScript truthiness of v (0, NaN and undefined are falsy)
Truthy(v) == \/ v.t = "string"
             \/ (v.t = "number" /\ v.n # 0)

\* v || d
OrDefault(v, d) == IF Truthy(v) THEN v ELSE Num(d)

\* a < b and a > b on these values: false as soon as one side is not a number
Lt(v, k) == IsNum(v) /\ v.n < k
Gt(v, k) == IsNum(v) /\ v.n > k

Min(a, b) == IF a < b THEN a ELSE b
Max(a, b) == IF a > b THEN a ELSE b

Dims(mad, mao, maa, map) == [mad |-> mad, mao |-> mao, maa |-> maa, map |-> map]

\* health_dimensions of a record that has none (overallDimensions?.x is undefined)
AbsentDims == Dims(Undef, Undef, Undef, Undef)

DimNames == <<"mad", "mao", "maa", "map">>

(***************************************************************************)
(* calculateHealthScore. Scores are rationals with denominator 30:         *)
(*   rawScore = (100 - mad) * 0.6 + ((mao + maa + map) / 3) * 0.4          *)
(*            = (18 * (100 - mad) + 4 * (mao + maa + map)) / 30.           *)
(* Such a value is never half-way between two integers (the numerator is   *)
(* even, 15 is odd), so Math.round is floor((n + 15) / 30) whatever the    *)
(* floating-point error. The breakdown is kept in tenths, as reported.     *)
(***************************************************************************)
TierLabel(tier) ==
    CASE tier = "S" -> "wangzhe"     \* the label of tier S in the source
      [] tier = "A" -> "youzhi"      \* tier A
      [] tier = "B" -> "biaozhun"    \* tier B
      [] tier = "C" -> "guancha"     \* tier C
      [] OTHER      -> "taotai"      \* tier D

\* a bonus whose +3 does not ask for mad < 5
BonusPointsThreeAlone(mad, mao) ==
    (IF Lt(mad, 5) /\ Gt(mao, 75) THEN 5 ELSE 0)
  + (IF Gt(mao, 85) THEN 3 ELSE 0)

BonusPoints(mad, mao) ==
    (IF Lt(mad, 5) /\ Gt(mao, 75) THEN 5 ELSE 0)
  + (IF Lt(mad, 5) /\ Gt(mao, 85) THEN 3 ELSE 0)

\* the breaker with its cap set one point too high (60 is tier C)
CircuitBreakerCapSixty(mad, raw30) == IF Gt(mad, 35) THEN Min(raw30, 60 * 30) ELSE raw30

\* if (mad > 35) rawScore = Math.min(rawScore, 59), on thirtieths
CircuitBreaker(mad, raw30) == IF Gt(mad, 35) THEN Min(raw30, 59 * 30) ELSE raw30

TierOf(finalScore) ==
    IF finalScore >= 90 THEN "S"
    ELSE IF finalScore >= 80 THEN "A"
    ELSE IF finalScore >= 70 THEN "B"
    ELSE IF finalScore >= 60 THEN "C"
    ELSE "D"

calculateHealthScore(overallDimensions) ==
    LET dimensions == Dims(OrDefault(overallDimensions.mad, 0),
                           OrDefault(overallDimensions.mao, 50),
                           OrDefault(overallDimensions.maa, 50),
                           OrDefault(overallDimensions.map, 0))
        mad == dimensions.mad
        mao == dimensions.mao
        maa == dimensions.maa
        map == dimensions.map
        bonusPoints == BonusPoints(mad, mao)
    IN  IF IsNum(mad) /\ IsNum(mao) /\ IsNum(maa) /\ IsNum(map)
        THEN LET safety30 == 18 * (100 - mad.n)
                 value30  == 4 * (mao.n + maa.n + map.n)
                 raw30    == CircuitBreaker(mad, safety30 + value30 + 30 * bonusPoints)
                 finalScore == (Min(100 * 30, Max(0, raw30)) + 15) \div 30
                 tier     == TierOf(finalScore)
             IN  [score      |-> Num(finalScore),
                  dimensions |-> dimensions,
                  tier       |-> tier,
                  tierLabel  |-> TierLabel(tier),
                  breakdown  |-> [safetyScore |-> Num(6 * (100 - mad.n)),
                                  valueScore  |-> Num((8 * (mao.n + maa.n + map.n) + 3) \div 6),
                                  bonusPoints |-> bonusPoints]]
        ELSE \* a string took part in the arithmetic: every sum is NaN, every
             \* comparison of finalScore is false, the tier stays 'D'
             [score      |-> NaN,
              dimensions |-> dimensions,
              tier       |-> "D",
              tierLabel  |-> TierLabel("D"),
              breakdown  |-> [safetyScore |-> IF IsNum(mad) THEN Num(6 * (100 - mad.n)) ELSE NaN,
                              valueScore  |-> IF IsNum(mao) /\ IsNum(maa) /\ IsNum(map)
                                              THEN Num((8 * (mao.n + maa.n + map.n) + 3) \div 6)
                                              ELSE NaN,
                              bonusPoints |-> bonusPoints]]

\* the result slot of the harness before calculateHealthScore has run
NotScored == [score |-> Undef, dimensions |-> AbsentDims, tier |-> "none",
              tierLabel |-> "none",
              breakdown |-> [safetyScore |-> Undef, valueScore |-> Undef, bonusPoints |-> 0]]

(***************************************************************************)
(* The record store: ./contracts.json, read and rewritten in full.         *)
(* A contract id is the number of the crypto.randomBytes(16) draw that     *)
(* produced it (draws never repeat); a file hash is the SHA-256 digest of  *)
(* the uploaded bytes, written <<"sha256", c>> for the content c (distinct *)
(* contents have distinct digests, the filename takes no part).            *)
(***************************************************************************)
calculateFileHash(content) == <<"sha256", content>>

\* a health score written by the earlier backend (src/backendserver.js)
LegacyScore == 40

NoBreakdown == NotScored.breakdown

\* the value findContractByHash / findContractById return when nothing matches
\* (undefined), in the shape of a record
NoRecord ==
    [contract_id |-> 0, file_hash |-> <<>>, file_id |-> <<>>, filename |-> <<>>,
     upload_date |-> 0, health_score |-> Undef, health_tier |-> "undefined",
     health_tier_label |-> "undefined", score_breakdown |-> NoBreakdown,
     health_dimensions |-> AbsentDims, dimension_explanations |-> "undefined",
     overall_recommendation |-> "undefined", document_type |-> "undefined",
     seller_company |-> "undefined", raw_data |-> "undefined",
     company_data |-> "undefined", contract_analysis |-> "undefined",
     last_updated |-> 0]

Found(r) == r.contract_id # 0

RECURSIVE IndexWhere(_, _, _)
\* contracts.findIndex(P), 1-based, 0 when nothing matches; P is given as the
\* set of matching positions
IndexWhere(cs, matching, i) ==
    IF i > Len(cs) THEN 0
    ELSE IF i \in matching THEN i
    ELSE IndexWhere(cs, matching, i + 1)

\* the lookup comparing the digest with the wrong field: nothing ever matches
findContractByHashWrongField(cs, fileHash) ==
    LET i == IndexWhere(cs, {k \in 1..Len(cs) : cs[k].file_id = fileHash}, 1)
    IN  IF i = 0 THEN NoRecord ELSE cs[i]

findContractByHash(cs, fileHash) ==
    LET i == IndexWhere(cs, {k \in 1..Len(cs) : cs[k].file_hash = fileHash}, 1)
    IN  IF i = 0 THEN NoRecord ELSE cs[i]

findContractById(cs, contractId) ==
    LET i == IndexWhere(cs, {k \in 1..Len(cs) : cs[k].contract_id = contractId}, 1)
    IN  IF i = 0 THEN NoRecord ELSE cs[i]

\* saveContract writing back a collection it did not read: the record alone
saveContractOverwriting(cs, contractData) == <<contractData>>

\* saveContract whose lookup misses the first record of the store
saveContractSkippingFirst(cs, contractData) ==
    LET existingIndex ==
            IndexWhere(cs, {k \in 1..Len(cs) : cs[k].contract_id = contractData.contract_id}, 2)
    IN  IF existingIndex >= 1
        THEN [cs EXCEPT ![existingIndex] = contractData]
        ELSE Append(cs, contractData)

\* saveContract without its lookup: the record is always pushed
saveContractAlwaysPush(cs, contractData) == Append(cs, contractData)

saveContract(cs, contractData) ==
    LET existingIndex ==
            IndexWhere(cs, {k \in 1..Len(cs) : cs[k].contract_id = contractData.contract_id}, 1)
    IN  IF existingIndex >= 1
        THEN [cs EXCEPT ![existingIndex] = contractData]
        ELSE Append(cs, contractData)

\* the filter that keeps nothing
FilterOutEverything(cs, contractId) == <<>>

RECURSIVE FilterOut(_, _)
\* contracts.filter(c => c.contract_id !== id)
FilterOut(cs, contractId) ==
    IF cs = <<>> THEN <<>>
    ELSE IF Head(cs).contract_id = contractId
         THEN FilterOut(Tail(cs), contractId)
         ELSE <<Head(cs)>> \o FilterOut(Tail(cs), contractId)

(***************************************************************************)
(* External collaborators. Their answers are inputs of the handlers.       *)
(***************************************************************************)
\* the payload of the five searches about a company
CompanyData(companyName) ==
    [profile |-> <<"profile", companyName>>,
     customs |-> <<"customs", companyName>>,
     legal |-> <<"legal", companyName>>,
     responsible_person |-> <<"responsible_person", companyName>>,
     responsible_person_legal |-> <<"responsible_person_legal", companyName>>]

\* Promise.all over five searches: 0 when all resolve, else the one that rejected
SearchOutcomes == 0..5

\* what analyzeContractWithBackground gives back: it throws, or returns the
\* value extractJSON parsed (null, or an object whose dimensions field is an
\* object, is missing or is a string)
Evaluation(kind, dimsKind, dimensions, narrative) ==
    [kind |-> kind, dimsKind |-> dimsKind, dimensions |-> dimensions,
     dimension_explanations |-> narrative, overall_recommendation |-> narrative]

EvalThrows == Evaluation("throw", "undefined", AbsentDims, "undefined")

Evaluations ==
    { EvalThrows,
      Evaluation("null", "undefined", AbsentDims, "undefined"),
      Evaluation("object", "undefined", AbsentDims, "text"),
      Evaluation("object", "string", AbsentDims, "text"),
      Evaluation("object", "object", Dims(Num(3), Num(78), Num(60), Num(50)), "text"),
      Evaluation("object", "object", Dims(Num(45), Num(0), Num(50), Num(40)), "undefined"),
      Evaluation("object", "object", Dims(Num(10), Num(150), Num(50), Num(50)), "text"),
      Evaluation("object", "object", Dims(Undef, Num(150), Num(50), Num(50)), "text"),
      Evaluation("object", "object", Dims(Num(10), Num(60), Str, Num(40)), "text"),
      Evaluation("object", "object", Dims(Num(10), Num(60), Num(50), Num(-5)), "text") }

\* result.dimensions as calculateHealthScore reads it (x?.mad of a missing
\* object or of a string is undefined)
ResultDimensions(result) ==
    IF result.dimsKind = "object" THEN result.dimensions ELSE AbsentDims

\* the test without its upper limit
InvalidDimensionNoUpperLimit(v) ==
    \/ ~(v.t \in {"number", "NaN"})
    \/ v.t = "NaN"
    \/ v.n < 0

\* the test of the validation loop on one dimension
InvalidDimension(v) ==
    \/ ~(v.t \in {"number", "NaN"})      \* typeof v !== 'number'
    \/ v.t = "NaN"                       \* isNaN(v)
    \/ v.n < 0
    \/ v.n > 100

RECURSIVE FirstInvalid(_, _)
\* the dimension the loop over requiredDimensions stops at, "" when it ends
FirstInvalid(dimensions, i) ==
    IF i > Len(DimNames) THEN ""
    ELSE IF InvalidDimension(dimensions[DimNames[i]]) THEN DimNames[i]
    ELSE FirstInvalid(dimensions, i + 1)

\* the validation of the upload handler: "" when the evaluation passes,
\* "dimensions" when the dimensions object is missing, else the dimension named
ValidateDimensions(result) ==
    IF result.dimsKind # "object" THEN "dimensions"
    ELSE FirstInvalid(result.dimensions, 1)

\* result.x || fallback for the narrative fields
OrElse(v, fallback) == IF v = "undefined" THEN fallback ELSE v

(***************************************************************************)
(* HTTP requests and responses. A request in flight is a handler suspended *)
(* at an await; seq is its arrival number. A response records the request  *)
(* it answers and how often the handler called calculateHealthScore.       *)
(***************************************************************************)
Response(req, status, success, duplicate, error, details, contract, scoreCalls) ==
    [seq |-> req.seq, kind |-> req.kind, content |-> req.content,
     filename |-> req.filename, id |-> req.id, new_company_name |-> req.new_company_name,
     status |-> status, success |-> success, duplicate |-> duplicate,
     error |-> error, details |-> details, contract |-> contract,
     contracts |-> <<>>, scoreCalls |-> scoreCalls, trace |-> req.trace]

Request(seq, kind, pc, content, filename, id, name, existing) ==
    [seq |-> seq, kind |-> kind, pc |-> pc, content |-> content, filename |-> filename,
     id |-> id, new_company_name |-> name,
     fileId |-> <<>>, sellerCompany |-> "undefined", existing |-> existing,
     trace |-> <<>>]

\* the calls a handler makes, in the order of its code, are kept in the
\* trace of its request; a call is made when the handler reaches its await
Called(req, calls) == [req EXCEPT !.trace = @ \o calls]

\* calls that leave the process: the inference service and the search service
ExternalCalls == {"openai.files.create", "openai.responses.create", "tavily.search"}

\* performCompanyBackgroundCheck starts its five searches together
FiveSearches == <<"tavily.search", "tavily.search", "tavily.search", "tavily.search",
                  "tavily.search">>

\* a start of POST /upload that goes to the services without hash or lookup
GateCallsSkipped == <<>>

\* the start of POST /upload: the hash, then the lookup
GateCalls == <<"calculateFileHash", "findContractByHash">>

\* no response sent yet
NoResponse ==
    Response(Request(0, "none", "done", 0, <<>>, 0, "<undefined>", NoRecord),
             0, "undefined", FALSE, "", "", NoRecord, 0)

(***************************************************************************)
(* extractJSON. A text is a sequence of characters; the characters that    *)
(* matter to the extractor are kept one by one ({ } [ ] " : , / * space,   *)
(* newline and the backtick) and a run of letters or of digits that none   *)
(* of its regular expressions can split is kept as one element ("json",    *)
(* "map", "1"). Positions are 1-based and 0 stands for JavaScript's -1.    *)
(***************************************************************************)
Quote == "\""
NL    == "\n"
Whitespace == {" ", NL}
Digits == {"1", "2"}

\* the parsed values: every node has the same three fields, an object keeps
\* its members in k as [key, val], an array its elements with an empty key
Node(t, s, k) == [t |-> t, s |-> s, k |-> k]
JString(s) == Node("string", s, <<>>)
JNumber(s) == Node("number", s, <<>>)
JObject(k) == Node("object", <<>>, k)
JArray(k)  == Node("array", <<>>, k)
Member(key, val) == [key |-> key, val |-> val]
NoValue == Node("undefined", <<>>, <<>>)

\* the message of the SyntaxError JSON.parse throws
UnexpectedToken(s, i) ==
    IF i > Len(s) THEN [text |-> "Unexpected end of JSON input", token |-> "", position |-> i - 1]
    ELSE [text |-> "Unexpected token", token |-> s[i], position |-> i - 1]
NoMessage == [text |-> "", token |-> "", position |-> 0]

Parsed(val, pos) == [ok |-> TRUE, val |-> val, pos |-> pos, message |-> NoMessage]
SyntaxError(s, i) == [ok |-> FALSE, val |-> NoValue, pos |-> i, message |-> UnexpectedToken(s, i)]

\* the first position from i on that holds no whitespace
RECURSIVE SkipWs(_, _)
SkipWs(s, i) ==
    IF i <= Len(s) /\ s[i] \in Whitespace THEN SkipWs(s, i + 1) ELSE i

\* the end of the run of digits that starts at i
RECURSIVE NumberEnd(_, _)
NumberEnd(s, i) ==
    IF i + 1 <= Len(s) /\ s[i + 1] \in Digits THEN NumberEnd(s, i + 1) ELSE i

\* a string literal opened at i: it runs to the next quote and may hold no
\* raw newline (a control character)
RECURSIVE StringEnd(_, _)
StringEnd(s, j) ==
    IF j > Len(s) \/ s[j] = Quote \/ s[j] = NL THEN j ELSE StringEnd(s, j + 1)

ParseString(s, i) ==
    LET j == StringEnd(s, i + 1)
    IN  IF j <= Len(s) /\ s[j] = Quote
        THEN Parsed(JString(SubSeq(s, i + 1, j - 1)), j + 1)
        ELSE SyntaxError(s, j)

\* { "k": v, "k": v }: a member named twice keeps its first place and its
\* last value
RECURSIVE PutMember(_, _, _, _)
PutMember(members, key, val, i) ==
    IF i > Len(members) THEN Append(members, Member(key, val))
    ELSE IF members[i].key = key THEN [members EXCEPT ![i] = Member(key, val)]
    ELSE PutMember(members, key, val, i + 1)

RECURSIVE ParseValue(_, _)
RECURSIVE ParseMembers(_, _, _)
RECURSIVE ParseElements(_, _, _)

\* i is where a member's key must start
ParseMembers(s, i, members) ==
    IF i > Len(s) \/ s[i] # Quote THEN SyntaxError(s, i)
    ELSE
    LET key == ParseString(s, i)
        colon == SkipWs(s, key.pos)
    IN  IF ~key.ok THEN key
        ELSE IF colon > Len(s) \/ s[colon] # ":" THEN SyntaxError(s, colon)
        ELSE
        LET val == ParseValue(s, SkipWs(s, colon + 1))
            after == SkipWs(s, val.pos)
            sofar == PutMember(members, key.val.s, val.val, 1)
        IN  IF ~val.ok THEN val
            ELSE IF after <= Len(s) /\ s[after] = "}" THEN Parsed(JObject(sofar), after + 1)
            ELSE IF after <= Len(s) /\ s[after] = ","
                 THEN ParseMembers(s, SkipWs(s, after + 1), sofar)
            ELSE SyntaxError(s, after)

\* i is where an element must start
ParseElements(s, i, elements) ==
    LET val == ParseValue(s, i)
        after == SkipWs(s, val.pos)
        sofar == Append(elements, Member(<<>>, val.val))
    IN  IF ~val.ok THEN val
        ELSE IF after <= Len(s) /\ s[after] = "]" THEN Parsed(JArray(sofar), after + 1)
        ELSE IF after <= Len(s) /\ s[after] = ","
             THEN ParseElements(s, SkipWs(s, after + 1), sofar)
        ELSE SyntaxError(s, after)

ParseValue(s, i) ==
    IF i > Len(s) THEN SyntaxError(s, i)
    ELSE IF s[i] = "{" THEN
        LET j == SkipWs(s, i + 1)
        IN  IF j <= Len(s) /\ s[j] = "}" THEN Parsed(JObject(<<>>), j + 1)
            ELSE ParseMembers(s, j, <<>>)
    ELSE IF s[i] = "[" THEN
        LET j == SkipWs(s, i + 1)
        IN  IF j <= Len(s) /\ s[j] = "]" THEN Parsed(JArray(<<>>), j + 1)
            ELSE ParseElements(s, j, <<>>)
    ELSE IF s[i] = Quote THEN ParseString(s, i)
    ELSE IF s[i] \in Digits THEN
        LET j == NumberEnd(s, i) IN Parsed(JNumber(SubSeq(s, i, j)), j + 1)
    ELSE SyntaxError(s, i)

\* JSON.parse: one value, whitespace around it, nothing after it
JSONparse(s) ==
    LET val == ParseValue(s, SkipWs(s, 1))
        after == SkipWs(s, val.pos)
    IN  IF ~val.ok THEN val
        ELSE IF after <= Len(s) THEN SyntaxError(s, after)
        ELSE val

\* String.prototype.indexOf / lastIndexOf / substring / trim on texts
Substring(s, from, to) == SubSeq(s, from, Min(to, Len(s)))

StartsAt(s, pattern, i) ==
    /\ i >= 1
    /\ i + Len(pattern) - 1 <= Len(s)
    /\ SubSeq(s, i, i + Len(pattern) - 1) = pattern

RECURSIVE IndexOf(_, _, _)
IndexOf(s, pattern, from) ==
    IF from + Len(pattern) - 1 > Len(s) THEN 0
    ELSE IF StartsAt(s, pattern, from) THEN from
    ELSE IndexOf(s, pattern, from + 1)

RECURSIVE LastIndexOf(_, _, _)
LastIndexOf(s, pattern, from) ==
    IF from < 1 THEN 0
    ELSE IF StartsAt(s, pattern, from) THEN from
    ELSE LastIndexOf(s, pattern, from - 1)

RECURSIVE TrimEnd(_)
TrimEnd(s) ==
    IF s # <<>> /\ s[Len(s)] \in Whitespace THEN TrimEnd(SubSeq(s, 1, Len(s) - 1)) ELSE s

Trim(s) == TrimEnd(SubSeq(s, SkipWs(s, 1), Len(s)))

\* the end of the line that holds position i
RECURSIVE LineEnd(_, _)
LineEnd(s, i) == IF i > Len(s) \/ s[i] = NL THEN i ELSE LineEnd(s, i + 1)

\* fixed.replace(/\/\/.*$/gm, ""): from every // to the end of its line
RECURSIVE StripLineComments(_, _)
StripLineComments(s, i) ==
    IF i > Len(s) THEN <<>>
    ELSE IF StartsAt(s, <<"/", "/">>, i) THEN StripLineComments(s, LineEnd(s, i))
    ELSE <<s[i]>> \o StripLineComments(s, i + 1)

\* fixed.replace(/\/\*[\s\S]*?\*\//g, ""): from every /* to the next */
RECURSIVE StripBlockComments(_, _)
StripBlockComments(s, i) ==
    LET close == IndexOf(s, <<"*", "/">>, i + 2)
    IN  IF i > Len(s) THEN <<>>
        ELSE IF StartsAt(s, <<"/", "*">>, i) /\ close # 0
             THEN StripBlockComments(s, close + 2)
        ELSE <<s[i]>> \o StripBlockComments(s, i + 1)

\* fixed.replace(/,(\s*[}\]])/g, "$1"): a comma that only whitespace
\* separates from a closing brace or bracket goes, what follows it stays
RECURSIVE StripTrailingCommas(_, _)
StripTrailingCommas(s, i) ==
    LET close == SkipWs(s, i + 1)
    IN  IF i > Len(s) THEN <<>>
        ELSE IF s[i] = "," /\ close <= Len(s) /\ s[close] \in {"}", "]"}
             THEN SubSeq(s, i + 1, close) \o StripTrailingCommas(s, close + 1)
        ELSE <<s[i]>> \o StripTrailingCommas(s, i + 1)

\* the number of times fixCommonJSONIssues runs the trailing-comma pass
CommaPasses == 3

RECURSIVE RepeatStripTrailingCommas(_, _)
RepeatStripTrailingCommas(s, n) ==
    IF n = 0 THEN s ELSE RepeatStripTrailingCommas(StripTrailingCommas(s, 1), n - 1)

fixCommonJSONIssues(jsonStr) ==
    RepeatStripTrailingCommas(
        StripBlockComments(StripLineComments(jsonStr, 1), 1), CommaPasses)

\* betweenText.match(/"[^"]*",\s*$/): the text ends, whitespace aside, with
\* a quoted run and a comma
EndsWithStringAndComma(betweenText) ==
    LET t == TrimEnd(betweenText)
    IN  /\ Len(t) >= 3
        /\ t[Len(t)] = ","
        /\ t[Len(t) - 1] = Quote
        /\ \E p \in 1..(Len(t) - 2) : t[p] = Quote

QuotedMap == <<Quote, "map", Quote>>
QuotedOverallRecommendation == <<Quote, "overall_recommendation", Quote>>

\* what fixJSONStructure puts in the place of the comma: "\n  },\n  "
ClosingBraceInserted == <<NL, " ", " ", "}", ",", NL, " ", " ">>

fixJSONStructure(jsonStr) ==
    LET overallRecommendationIndex == IndexOf(jsonStr, QuotedOverallRecommendation, 1)
        mapIndex == LastIndexOf(jsonStr, QuotedMap, overallRecommendationIndex)
        betweenText == SubSeq(jsonStr, mapIndex, overallRecommendationIndex - 1)
        commaBeforeOverall == LastIndexOf(jsonStr, <<",">>, overallRecommendationIndex)
        before == SubSeq(jsonStr, 1, commaBeforeOverall - 1)
        after == SubSeq(jsonStr, commaBeforeOverall, Len(jsonStr))
    IN  IF overallRecommendationIndex = 0 THEN jsonStr
        ELSE IF mapIndex = 0 THEN jsonStr
        ELSE IF /\ EndsWithStringAndComma(betweenText)
                /\ IndexOf(betweenText, <<"}", ",">>, 1) = 0
                /\ commaBeforeOverall > mapIndex
             THEN before \o ClosingBraceInserted \o Trim(Tail(after))
        ELSE jsonStr

\* text.match(/FENCE(?:json)?\s*(\{[\s\S]*?\})\s*FENCE/), FENCE being three
\* backticks: the captured group of the leftmost match. The fence is
\* followed by an optional "json" and whitespace, the group opens with {
\* and closes with the first } that only whitespace separates from a
\* closing fence.
\* the backtick (a character these strings cannot hold)
Backtick == "backtick"
Fence == <<Backtick, Backtick, Backtick>>

NoMatch == [found |-> FALSE, group |-> <<>>]

RECURSIVE GroupEnd(_, _)
GroupEnd(s, e) ==
    IF e > Len(s) THEN 0
    ELSE IF s[e] = "}" /\ StartsAt(s, Fence, SkipWs(s, e + 1)) THEN e
    ELSE GroupEnd(s, e + 1)

RECURSIVE FenceMatch(_, _)
FenceMatch(s, i) ==
    LET j == IF i + 3 <= Len(s) /\ s[i + 3] = "json" THEN i + 4 ELSE i + 3
        open == SkipWs(s, j)
        close == GroupEnd(s, open + 1)
    IN  IF i > Len(s) THEN NoMatch
        ELSE IF /\ StartsAt(s, Fence, i)
                /\ open <= Len(s) /\ s[open] = "{"
                /\ close # 0
             THEN [found |-> TRUE, group |-> SubSeq(s, open, close)]
        ELSE FenceMatch(s, i + 1)

\* what extractJSON returns or throws
NoError == [name |-> "", parserMessage |-> NoMessage, prefix |-> <<>>]
NotExtracted == [outcome |-> "none", value |-> NoValue, error |-> NoError]
Returned(value) == [outcome |-> "returned", value |-> value, error |-> NoError]
Thrown(name, parserMessage, prefix) ==
    [outcome |-> "thrown", value |-> NoValue,
     error |-> [name |-> name, parserMessage |-> parserMessage, prefix |-> prefix]]

\* text.substring(0, 1000) in the message of the last throw
ResponsePrefix == 1000

\* JSON.parse of the repaired text
ParseRepaired(jsonStr) == JSONparse(fixCommonJSONIssues(fixJSONStructure(jsonStr)))

\* an extractor that repairs the whole text before its first parse
extractJSONRepairingFirst(t) ==
    LET direct == ParseRepaired(t)
        jsonMatch == FenceMatch(t, 1)
        fenced == JSONparse(jsonMatch.group)
        fencedFixed == ParseRepaired(jsonMatch.group)
        firstBrace == IndexOf(t, <<"{">>, 1)
        lastBrace == LastIndexOf(t, <<"}">>, Len(t))
        jsonStr == SubSeq(t, firstBrace, lastBrace)
        braced == JSONparse(jsonStr)
        bracedFixed == ParseRepaired(jsonStr)
    IN  IF direct.ok THEN Returned(direct.val)
        ELSE IF jsonMatch.found /\ fenced.ok THEN Returned(fenced.val)
        ELSE IF jsonMatch.found /\ fencedFixed.ok THEN Returned(fencedFixed.val)
        ELSE IF firstBrace # 0 /\ lastBrace # 0 /\ lastBrace > firstBrace
             THEN IF braced.ok THEN Returned(braced.val)
                  ELSE IF bracedFixed.ok THEN Returned(bracedFixed.val)
                  \* the catch block reads fixed, a let of the try block
                  \* it follows: the read throws before the Error is built
                  ELSE Thrown("ReferenceError", NoMessage, <<>>)
        ELSE Thrown("Error", direct.message, Substring(t, 1, ResponsePrefix))

\* an extractor that gives up when the fenced block cannot be repaired
extractJSONEndingAtFence(t) ==
    LET direct == JSONparse(t)
        jsonMatch == FenceMatch(t, 1)
        fenced == JSONparse(jsonMatch.group)
        fencedFixed == ParseRepaired(jsonMatch.group)
        firstBrace == IndexOf(t, <<"{">>, 1)
        lastBrace == LastIndexOf(t, <<"}">>, Len(t))
        jsonStr == SubSeq(t, firstBrace, lastBrace)
        braced == JSONparse(jsonStr)
        bracedFixed == ParseRepaired(jsonStr)
    IN  IF direct.ok THEN Returned(direct.val)
        ELSE IF jsonMatch.found /\ fenced.ok THEN Returned(fenced.val)
        ELSE IF jsonMatch.found /\ fencedFixed.ok THEN Returned(fencedFixed.val)
        ELSE IF jsonMatch.found
             THEN Thrown("Error", fencedFixed.message, Substring(t, 1, ResponsePrefix))
        ELSE IF firstBrace # 0 /\ lastBrace # 0 /\ lastBrace > firstBrace
             THEN IF braced.ok THEN Returned(braced.val)
                  ELSE IF bracedFixed.ok THEN Returned(bracedFixed.val)
                  \* the catch block reads fixed, a let of the try block
                  \* it follows: the read throws before the Error is built
                  ELSE Thrown("ReferenceError", NoMessage, <<>>)
        ELSE Thrown("Error", direct.message, Substring(t, 1, ResponsePrefix))

extractJSON(t) ==
    LET direct == JSONparse(t)
        jsonMatch == FenceMatch(t, 1)
        fenced == JSONparse(jsonMatch.group)
        fencedFixed == ParseRepaired(jsonMatch.group)
        firstBrace == IndexOf(t, <<"{">>, 1)
        lastBrace == LastIndexOf(t, <<"}">>, Len(t))
        jsonStr == SubSeq(t, firstBrace, lastBrace)
        braced == JSONparse(jsonStr)
        bracedFixed == ParseRepaired(jsonStr)
    IN  IF direct.ok THEN Returned(direct.val)
        ELSE IF jsonMatch.found /\ fenced.ok THEN Returned(fenced.val)
        ELSE IF jsonMatch.found /\ fencedFixed.ok THEN Returned(fencedFixed.val)
        ELSE IF firstBrace # 0 /\ lastBrace # 0 /\ lastBrace > firstBrace
             THEN IF braced.ok THEN Returned(braced.val)
                  ELSE IF bracedFixed.ok THEN Returned(bracedFixed.val)
                  \* the catch block reads fixed, a let of the try block
                  \* it follows: the read throws before the Error is built
                  ELSE Thrown("ReferenceError", NoMessage, <<>>)
        ELSE Thrown("Error", direct.message, Substring(t, 1, ResponsePrefix))

(***************************************************************************)
(* Scoring harness (SpecScore): a valid dimension set is drawn, scored,    *)
(* then one of its dimensions is changed and the changed set is scored.    *)
(***************************************************************************)
\* the dimension values tried: both ends of the range, both sides of the
\* bonus thresholds (mad < 5, mao > 75, mao > 85) and of the breaker (mad > 35)
DimGrid == {0, 4, 5, 35, 36, 50, 75, 76, 85, 86, 100}

\* the worked examples of API_DOCUMENTATION.md
ExampleDims == { Dims(Num(3), Num(78), Num(60), Num(50)),
                 Dims(Num(45), Num(80), Num(50), Num(40)),
                 Dims(Num(2), Num(90), Num(85), Num(75)) }

ValidDims == { Dims(Num(a), Num(b), Num(c), Num(d)) : a \in DimGrid, b \in DimGrid,
                                                       c \in DimGrid, d \in DimGrid }
             \cup ExampleDims

Scored(r) == r.tier # "none"

StoreIdle   == /\ contracts = <<>> /\ requests = {} /\ response = NoResponse
               /\ clock = 0 /\ arrived = 0 /\ idCounter = 0
ScoreIdle   == dimsA = AbsentDims /\ resA = NotScored /\ dimsB = AbsentDims /\ resB = NotScored

InitScore ==
    /\ dimsA \in ValidDims
    /\ resA = NotScored
    /\ dimsB = AbsentDims
    /\ resB = NotScored
    /\ StoreIdle
    /\ text = <<>>
    /\ extracted = NotExtracted

\* a scorer that writes its defaults back into the object it was given
ScoreFirstWritingDefaults ==
    /\ ~Scored(resA)
    /\ resA' = calculateHealthScore(dimsA)
    /\ dimsA' = resA'.dimensions
    /\ UNCHANGED <<contracts, requests, response, clock, arrived, idCounter, dimsB, resB, text, extracted>>

ScoreFirst ==
    /\ ~Scored(resA)
    /\ resA' = calculateHealthScore(dimsA)
    /\ UNCHANGED <<contracts, requests, response, clock, arrived, idCounter, dimsA, dimsB, resB, text, extracted>>

\* the same set with the dimension `axis` replaced by another valid value
ScoreVaried ==
    /\ Scored(resA)
    /\ ~Scored(resB)
    /\ \E axis \in {"mad", "mao", "maa", "map"}, v \in DimGrid :
          /\ dimsA[axis] # Num(v)
          /\ dimsB' = [dimsA EXCEPT ![axis] = Num(v)]
          /\ resB' = calculateHealthScore(dimsB')
    /\ UNCHANGED <<contracts, requests, response, clock, arrived, idCounter, dimsA, resA, text, extracted>>

\* a second call on the same set
ScoreAgain ==
    /\ Scored(resA)
    /\ ~Scored(resB)
    /\ dimsB' = dimsA
    /\ resB' = calculateHealthScore(dimsB')
    /\ UNCHANGED <<contracts, requests, response, clock, arrived, idCounter, dimsA, resA, text, extracted>>

NextScore == ScoreFirst \/ ScoreVaried \/ ScoreAgain

SpecScore == InitScore /\ [][NextScore]_vars

\* C1: circuit breaker dominance. Every scored valid dimension set with
\* mad > 35 has score <= 59 and tier D, whatever mao, maa, map and the bonus.
C1_BreakerDominance ==
    /\ (Scored(resA) /\ Gt(dimsA.mad, 35))
          => (IsNum(resA.score) /\ resA.score.n <= 59 /\ resA.tier = "D")
    /\ (Scored(resB) /\ Gt(dimsB.mad, 35))
          => (IsNum(resB.score) /\ resB.score.n <= 59 /\ resB.tier = "D")

\* a set whose uncapped score is 78.4 (mad 36, the rest 100) was scored and capped
C1_Witness ==
    /\ dimsA = Dims(Num(36), Num(100), Num(100), Num(100))
    /\ resA.score = Num(59)
    /\ resA.tier = "D"

\* the score as the documented formula gives it, computed on the supplied
\* values themselves: round(clamp(cap(0.6 (100 - mad) + 0.4 (mao + maa + map) / 3 + bonus)))
DocumentedScore(d) ==
    LET bonus == (IF d.mad.n < 5 /\ d.mao.n > 75 THEN 5 ELSE 0)
               + (IF d.mad.n < 5 /\ d.mao.n > 85 THEN 3 ELSE 0)
        raw30 == 18 * (100 - d.mad.n) + 4 * (d.mao.n + d.maa.n + d.map.n) + 30 * bonus
        cap30 == IF d.mad.n > 35 THEN Min(raw30, 59 * 30) ELSE raw30
    IN  (Min(100 * 30, Max(0, cap30)) + 15) \div 30

\* C2: score formula. For every valid dimension set, 0 included, the score
\* is the documented formula of the supplied values; the three worked
\* examples give 88 (A), 56 (D) and 100 (S).
C2_ScoreFormula ==
    /\ Scored(resA) => resA.score = Num(DocumentedScore(dimsA))
    /\ Scored(resB) => resB.score = Num(DocumentedScore(dimsB))
    /\ (Scored(resA) /\ dimsA = Dims(Num(3), Num(78), Num(60), Num(50)))
          => (resA.score = Num(88) /\ resA.tier = "A")
    /\ (Scored(resA) /\ dimsA = Dims(Num(45), Num(80), Num(50), Num(40)))
          => (resA.score = Num(56) /\ resA.tier = "D")
    /\ (Scored(resA) /\ dimsA = Dims(Num(2), Num(90), Num(85), Num(75)))
          => (resA.score = Num(100) /\ resA.tier = "S")

\* C3: monotonicity. Of two valid sets that differ in one dimension, the
\* one with the larger mad scores no higher, the one with the larger mao,
\* maa or map scores no lower.
C3_Monotone ==
    (Scored(resA) /\ Scored(resB)) =>
        /\ dimsB.mad.n > dimsA.mad.n => resB.score.n <= resA.score.n
        /\ dimsB.mad.n < dimsA.mad.n => resB.score.n >= resA.score.n
        /\ \A x \in {"mao", "maa", "map"} :
              /\ dimsB[x].n > dimsA[x].n => resB.score.n >= resA.score.n
              /\ dimsB[x].n < dimsA[x].n => resB.score.n <= resA.score.n

(***************************************************************************)
(* The handlers. A request arrives and runs its handler up to the first    *)
(* await; every later action of the request is the synchronous stretch     *)
(* after one await. Requests interleave at the awaits only.                *)
(***************************************************************************)
\* how many requests arrive in a behaviour
MaxRequests == 2

Contents   == {1, 2}                                  \* uploaded byte contents
Filenames  == {<<"a", ".pdf">>, <<"b", ".DOCX">>}   \* name and extension
Sellers    == {"Acme"}                                \* seller_company the inference names
NewNames   == {"Acme", "Beta"}                        \* new_company_name of an update
\* new_company_name of a request body; "<undefined>" is the missing field
BlankNames == {"<undefined>", "", "  "}
ContractIds == 1..MaxRequests                         \* the :id of a route

ToLowerCase(ext) ==
    CASE ext = ".DOCX" -> ".docx"
      [] ext = ".DOC"  -> ".doc"
      [] ext = ".PDF"  -> ".pdf"
      [] OTHER         -> ext

\* path.extname(originalFilename).toLowerCase()
ExtName(filename) == ToLowerCase(filename[2])

\* uploaded.id of openai.files.create for this content
FileId(content) == <<"file", content>>

\* a guard that only rejects the missing field
NameRejectedWhenMissing(name) == name = "<undefined>"

\* !new_company_name || new_company_name.trim() === ""
NameRejected(name) == name \in BlankNames

\* a request arrives
Arrive == /\ arrived < MaxRequests
          /\ arrived' = arrived + 1

\* new Date().toISOString(): time has passed since the last reading
Now == clock + 1
Tick == clock' = Now

\* the request req leaves its await and goes on to the next one
Continue(req, next) ==
    /\ requests' = (requests \ {req}) \cup {next}
    /\ UNCHANGED response

\* the request req ends with a response
Finish(req, resp) ==
    /\ requests' = requests \ {req}
    /\ response' = resp

\* a catch block that answers as if the request had succeeded
ExceptionAnsweredAsSuccess(req) == Response(req, 200, "true", FALSE, "", "", NoRecord, 0)

\* catch (err) { res.status(500).json({ error: err.message }) }
Exception(req) == Response(req, 500, "undefined", FALSE, "exception", "", NoRecord, 0)

\* ---- POST /upload ----

\* the handler up to its first await: hash, duplicate check
UploadStart(content, filename) ==
    /\ Arrive
    /\ LET fileHash == calculateFileHash(content)
           existingContract == findContractByHash(contracts, fileHash)
           req == Called(Request(arrived', "upload", "file", content, filename, 0,
                                 "<undefined>", NoRecord), GateCalls)
           docx == ExtName(filename) \in {".docx", ".doc"}
       IN  IF Found(existingContract)
           THEN /\ response' = Response(req, 200, "true", TRUE, "", "", existingContract, 0)
                /\ UNCHANGED requests
           ELSE /\ requests' = requests \cup
                        {Called(req, IF docx THEN <<"mammoth.extractRawText">>
                                             ELSE <<"openai.files.create">>)}
                /\ UNCHANGED response
    /\ UNCHANGED <<contracts, clock, idCounter>>

\* after mammoth.extractRawText (.docx, .doc) or openai.files.create (others)
UploadFile(req, ok) ==
    /\ req.kind = "upload" /\ req.pc = "file"
    /\ LET docx == ExtName(req.filename) \in {".docx", ".doc"}
       IN  IF ok
           THEN Continue(req, Called([req EXCEPT !.pc = "basic",
                                                 !.fileId = IF docx THEN <<>>
                                                            ELSE FileId(req.content)],
                                     <<"openai.responses.create">>))
           ELSE IF docx
                THEN Finish(req, Response(req, 400, "false", FALSE, "docx_unreadable", "", NoRecord, 0))
                ELSE Finish(req, Exception(req))
    /\ UNCHANGED <<contracts, clock, arrived, idCounter>>

\* what the first inference call and extractJSON give for the basic
\* information: the call throws, the text is unparseable, seller_company is
\* missing or is the "unknown" marker, or it names a company
BasicInfoOutcomes == {"throw", "unparseable", "undefined", "unknown"} \cup Sellers

\* after openai.responses.create for the basic information
UploadBasicInfo(req, outcome) ==
    /\ req.kind = "upload" /\ req.pc = "basic"
    /\ CASE outcome = "throw" ->
              Finish(req, Exception(req))
         [] outcome = "unparseable" ->
              Finish(req, Response(req, 500, "false", FALSE, "no_basic_info", "", NoRecord, 0))
         [] outcome \in {"undefined", "unknown"} ->
              Finish(req, Response(req, 200, "false", FALSE, "", "no_seller_company", NoRecord, 0))
         [] OTHER ->
              Continue(req, Called([req EXCEPT !.pc = "background", !.sellerCompany = outcome],
                                   FiveSearches))
    /\ UNCHANGED <<contracts, clock, arrived, idCounter>>

\* after performCompanyBackgroundCheck(sellerCompany)
UploadBackground(req, rejected) ==
    /\ req.kind = "upload" /\ req.pc = "background"
    /\ IF rejected # 0
       THEN Finish(req, Exception(req))
       ELSE Continue(req, Called([req EXCEPT !.pc = "analyze"], <<"openai.responses.create">>))
    /\ UNCHANGED <<contracts, clock, arrived, idCounter>>

\* the record the upload handler builds
savedContractData(req, contractId, result, healthScoreResult, uploadDate) ==
    [contract_id |-> contractId,
     file_hash |-> calculateFileHash(req.content),
     file_id |-> req.fileId,
     filename |-> req.filename,
     upload_date |-> uploadDate,
     health_score |-> healthScoreResult.score,
     health_tier |-> healthScoreResult.tier,
     health_tier_label |-> healthScoreResult.tierLabel,
     score_breakdown |-> healthScoreResult.breakdown,
     health_dimensions |-> healthScoreResult.dimensions,
     dimension_explanations |-> OrElse(result.dimension_explanations, "{}"),
     overall_recommendation |-> OrElse(result.overall_recommendation, ""),
     document_type |-> "contract",
     seller_company |-> req.sellerCompany,
     raw_data |-> result,
     company_data |-> CompanyData(req.sellerCompany),
     contract_analysis |-> "undefined",
     last_updated |-> 0]

\* after analyzeContractWithBackground: validate, score, save, answer
UploadAnalyze(req, result) ==
    /\ req.kind = "upload" /\ req.pc = "analyze"
    /\ LET invalid == ValidateDimensions(result)
           healthScoreResult == calculateHealthScore(result.dimensions)
           contractId == idCounter + 1
           saved == savedContractData(req, contractId, result, healthScoreResult, Now)
       IN  CASE result.kind = "throw" ->
                  /\ Finish(req, Response(req, 500, "false", FALSE, "ai_format", "", NoRecord, 0))
                  /\ UNCHANGED <<contracts, clock, idCounter>>
             [] result.kind = "null" ->        \* result.dimensions throws a TypeError
                  /\ Finish(req, Exception(req))
                  /\ UNCHANGED <<contracts, clock, idCounter>>
             [] result.kind = "object" /\ invalid = "dimensions" ->
                  /\ Finish(req, Response(req, 500, "false", FALSE, "ai_dimensions_missing",
                                          "dimensions", NoRecord, 0))
                  /\ UNCHANGED <<contracts, clock, idCounter>>
             [] result.kind = "object" /\ invalid \notin {"", "dimensions"} ->
                  /\ Finish(req, Response(req, 500, "false", FALSE, "ai_dimensions_invalid",
                                          invalid, NoRecord, 0))
                  /\ UNCHANGED <<contracts, clock, idCounter>>
             [] OTHER ->
                  /\ idCounter' = contractId
                  /\ Tick
                  /\ contracts' = saveContract(contracts, saved)
                  /\ Finish(req, Response(req, 200, "true", FALSE, "", "", saved, 1))
    /\ UNCHANGED arrived

\* ---- PUT /contracts/:id/update-company ----

\* the handler up to its first await: the two guards
UpdateStart(contractId, name) ==
    /\ Arrive
    /\ LET existingContract == findContractById(contracts, contractId)
           blank == Request(arrived', "update", "background", 0, <<>>, contractId, name,
                            NoRecord)
           req == Called([blank EXCEPT !.existing = existingContract], <<"findContractById">>)
       IN  IF NameRejected(name)
           THEN /\ response' = Response(blank, 400, "undefined", FALSE, "empty_name", "", NoRecord, 0)
                /\ UNCHANGED requests
           ELSE IF ~Found(existingContract)
           THEN /\ response' = Response(req, 404, "undefined", FALSE, "not_found", "", NoRecord, 0)
                /\ UNCHANGED requests
           ELSE /\ requests' = requests \cup {Called(req, FiveSearches)}
                /\ UNCHANGED response
    /\ UNCHANGED <<contracts, clock, idCounter>>

\* the record of the path without file_id: only the background is refreshed
degradedContract(req, healthScoreResult) ==
    [req.existing EXCEPT
        !.seller_company = req.new_company_name,
        !.company_data = CompanyData(req.new_company_name),
        !.health_score = healthScoreResult.score,
        !.health_tier = healthScoreResult.tier,
        !.health_tier_label = healthScoreResult.tierLabel,
        !.score_breakdown = healthScoreResult.breakdown,
        !.last_updated = Now]

\* a re-scored record that keeps the dimensions it had
updatedContractKeepingDimensions(req, result, healthScoreResult) ==
    [req.existing EXCEPT
        !.seller_company = req.new_company_name,
        !.company_data = CompanyData(req.new_company_name),
        !.health_score = healthScoreResult.score,
        !.health_tier = healthScoreResult.tier,
        !.health_tier_label = healthScoreResult.tierLabel,
        !.score_breakdown = healthScoreResult.breakdown,
        !.dimension_explanations = OrElse(result.dimension_explanations, "{}"),
        !.overall_recommendation = OrElse(result.overall_recommendation, ""),
        !.raw_data = result,
        !.last_updated = Now]

\* a re-scored record that takes the time of the update as its upload_date
updatedContractDatedAnew(req, result, healthScoreResult) ==
    [req.existing EXCEPT
        !.seller_company = req.new_company_name,
        !.health_score = healthScoreResult.score,
        !.raw_data = result,
        !.upload_date = Now,
        !.last_updated = Now]

\* the record of the re-scoring path
updatedContract(req, result, healthScoreResult) ==
    [req.existing EXCEPT
        !.seller_company = req.new_company_name,
        !.company_data = CompanyData(req.new_company_name),
        !.health_score = healthScoreResult.score,
        !.health_tier = healthScoreResult.tier,
        !.health_tier_label = healthScoreResult.tierLabel,
        !.score_breakdown = healthScoreResult.breakdown,
        !.health_dimensions = healthScoreResult.dimensions,
        !.dimension_explanations = OrElse(result.dimension_explanations, "{}"),
        !.overall_recommendation = OrElse(result.overall_recommendation, ""),
        !.raw_data = result,
        !.last_updated = Now]

\* after performCompanyBackgroundCheck(new_company_name); a record without
\* file_id is saved here
UpdateBackground(req, rejected) ==
    /\ req.kind = "update" /\ req.pc = "background"
    /\ LET updated == degradedContract(req, calculateHealthScore(req.existing.health_dimensions))
       IN  IF rejected # 0
           THEN /\ Finish(req, Exception(req))
                /\ UNCHANGED <<contracts, clock>>
           ELSE IF req.existing.file_id = <<>>
           THEN /\ Tick
                /\ contracts' = saveContract(contracts, updated)
                /\ Finish(req, Response(req, 200, "true", FALSE, "", "dimensions_unchanged",
                                        updated, 1))
           ELSE /\ Continue(req, Called([req EXCEPT !.pc = "analyze"],
                                         <<"openai.responses.create">>))
                /\ UNCHANGED <<contracts, clock>>
    /\ UNCHANGED <<arrived, idCounter>>

\* after analyzeContractWithBackground(existingContract.file_id, ...): score and save
UpdateAnalyze(req, result) ==
    /\ req.kind = "update" /\ req.pc = "analyze"
    /\ LET updated == updatedContract(req, result, calculateHealthScore(ResultDimensions(result)))
       IN  IF result.kind \in {"throw", "null"}   \* rethrown, or a TypeError on result.dimensions
           THEN /\ Finish(req, Exception(req))
                /\ UNCHANGED <<contracts, clock>>
           ELSE /\ Tick
                /\ contracts' = saveContract(contracts, updated)
                /\ Finish(req, Response(req, 200, "true", FALSE, "", "", updated, 1))
    /\ UNCHANGED <<arrived, idCounter>>

\* ---- DELETE /contracts/:id ----
Delete(contractId) ==
    /\ Arrive
    /\ LET filtered == FilterOut(contracts, contractId)
           req == Request(arrived', "delete", "done", 0, <<>>, contractId, "<undefined>", NoRecord)
       IN  IF Len(contracts) = Len(filtered)
           THEN /\ response' = Response(req, 404, "undefined", FALSE, "not_found", "", NoRecord, 0)
                /\ UNCHANGED contracts
           ELSE /\ contracts' = filtered
                /\ response' = Response(req, 200, "true", FALSE, "", "deleted", NoRecord, 0)
    /\ UNCHANGED <<requests, clock, idCounter>>

\* ---- POST /contracts/:id/replace ----
Replace(contractId) ==
    /\ Arrive
    /\ LET existingContract == findContractById(contracts, contractId)
           req == Request(arrived', "replace", "done", 0, <<>>, contractId, "<undefined>", NoRecord)
       IN  IF ~Found(existingContract)
           THEN /\ response' = Response(req, 404, "undefined", FALSE, "not_found", "", NoRecord, 0)
                /\ UNCHANGED contracts
           ELSE /\ contracts' = FilterOut(contracts, contractId)
                /\ response' = Response(req, 200, "true", FALSE, "", "deleted_upload_again",
                                        NoRecord, 0)
    /\ UNCHANGED <<requests, clock, idCounter>>

\* ---- GET /contracts ----

\* the entry of the list for the record c
contractsListEntry(c) ==
    [contract_id |-> c.contract_id,
     filename |-> c.filename,
     seller_company |-> c.seller_company,
     health_score |-> c.health_score,
     health_tier |-> c.health_tier,
     health_tier_label |-> c.health_tier_label,
     upload_date |-> c.upload_date,
     document_type |-> c.document_type]

\* contracts.map(c => ({...}))
contractsList(cs) == [k \in 1..Len(cs) |-> contractsListEntry(cs[k])]

ListContracts ==
    /\ Arrive
    /\ LET req == Request(arrived', "list", "done", 0, <<>>, 0, "<undefined>", NoRecord)
       IN  response' = [Response(req, 200, "true", FALSE, "", "", NoRecord, 0)
                           EXCEPT !.contracts = contractsList(contracts)]
    /\ UNCHANGED <<contracts, requests, clock, idCounter>>

\* ---- GET /contracts/:id ----
GetContract(contractId) ==
    /\ Arrive
    /\ LET contract == findContractById(contracts, contractId)
           req == Request(arrived', "get", "done", 0, <<>>, contractId, "<undefined>", NoRecord)
       IN  response' = IF ~Found(contract)
                       THEN Response(req, 404, "undefined", FALSE, "not_found", "", NoRecord, 0)
                       ELSE Response(req, 200, "true", FALSE, "", "", contract, 0)
    /\ UNCHANGED <<contracts, requests, clock, idCounter>>

ExtractIdle == text = <<>> /\ extracted = NotExtracted

\* a record saved by POST /upload in an earlier run of the server: a .pdf
\* upload of content 1 that the inference scored {3, 78, 60, 50}
EarlierEvaluation ==
    Evaluation("object", "object", Dims(Num(3), Num(78), Num(60), Num(50)), "text")

EarlierUpload ==
    savedContractData(
        [Request(0, "upload", "analyze", 1, <<"a", ".pdf">>, 0, "<undefined>", NoRecord)
            EXCEPT !.fileId = FileId(1), !.sellerCompany = "Acme"],
        1, EarlierEvaluation, calculateHealthScore(EarlierEvaluation.dimensions), 0)

\* a record saved by the earlier backend (src/backendserver.js): no file_id,
\* no health_dimensions, no tier, three searches in company_data
LegacyRecord ==
    [NoRecord EXCEPT
        !.contract_id = 1,
        !.file_hash = calculateFileHash(1),
        !.filename = <<"a", ".pdf">>,
        !.health_score = Num(LegacyScore),
        !.document_type = "contract",
        !.seller_company = "Acme",
        !.raw_data = "legacy",
        !.company_data = [profile |-> <<"profile", "Acme">>,
                          customs |-> <<"customs", "Acme">>,
                          legal |-> <<"legal", "Acme">>],
        !.contract_analysis = "legacy"]

\* the server starts on what ./contracts.json holds: nothing, or the record
\* an earlier run saved (upload_date 0 is a time before this run)
Init ==
    /\ \/ contracts = <<>> /\ idCounter = 0
       \/ contracts = <<EarlierUpload>> /\ idCounter = 1
    /\ requests = {}
    /\ response = NoResponse
    /\ clock = 0
    /\ arrived = 0
    /\ ScoreIdle
    /\ ExtractIdle

\* the server starts on a contracts.json written by the earlier backend
InitLegacy ==
    /\ contracts = <<LegacyRecord>> /\ idCounter = 1
    /\ requests = {}
    /\ response = NoResponse
    /\ clock = 0
    /\ arrived = 0
    /\ ScoreIdle
    /\ ExtractIdle

Harness == <<dimsA, resA, dimsB, resB, text, extracted>>

Next ==
    \/ \E c \in Contents, f \in Filenames : UploadStart(c, f) /\ UNCHANGED Harness
    \/ \E req \in requests, ok \in BOOLEAN : UploadFile(req, ok) /\ UNCHANGED Harness
    \/ \E req \in requests, o \in BasicInfoOutcomes : UploadBasicInfo(req, o) /\ UNCHANGED Harness
    \/ \E req \in requests, r \in SearchOutcomes : UploadBackground(req, r) /\ UNCHANGED Harness
    \/ \E req \in requests, e \in Evaluations : UploadAnalyze(req, e) /\ UNCHANGED Harness
    \/ \E id \in ContractIds, n \in BlankNames \cup NewNames : UpdateStart(id, n) /\ UNCHANGED Harness
    \/ \E req \in requests, r \in SearchOutcomes : UpdateBackground(req, r) /\ UNCHANGED Harness
    \/ \E req \in requests, e \in Evaluations : UpdateAnalyze(req, e) /\ UNCHANGED Harness
    \/ \E id \in ContractIds : Delete(id) /\ UNCHANGED Harness
    \/ \E id \in ContractIds : Replace(id) /\ UNCHANGED Harness
    \/ ListContracts /\ UNCHANGED Harness
    \/ \E id \in ContractIds : GetContract(id) /\ UNCHANGED Harness

Spec == Init /\ [][Next]_vars

SpecLegacy == InitLegacy /\ [][Next]_vars

(***************************************************************************)
(* Claims about the store and the handlers.                                *)
(***************************************************************************)
Stored == {contracts[k] : k \in 1..Len(contracts)}

\* this step is the arrival of a request of this kind (in flight afterwards,
\* or answered at once)
Arrives(kind) ==
    /\ arrived' = arrived + 1
    /\ \/ \E r \in requests' \ requests : r.seq = arrived' /\ r.kind = kind
       \/ response'.seq = arrived' /\ response'.kind = kind

\* the content of the upload that arrives in this step
ArrivingContent ==
    IF response'.seq = arrived' THEN response'.content
    ELSE (CHOOSE r \in requests' \ requests : r.seq = arrived').content

\* C4: duplicate detection. An upload that arrives while the store holds a
\* record of byte-identical content creates no record and no further work,
\* leaves the store unchanged and is answered at once with success,
\* duplicate = true and that existing record.
C4_DuplicateUpload ==
    [][ (/\ Arrives("upload")
         /\ \E c \in Stored : c.file_hash = calculateFileHash(ArrivingContent))
        => /\ contracts' = contracts
           /\ requests' = requests
           /\ response'.seq = arrived'
           /\ response'.status = 200
           /\ response'.success = "true"
           /\ response'.duplicate
           /\ response'.contract \in Stored
           /\ response'.contract.file_hash = calculateFileHash(ArrivingContent) ]_vars

\* an upload of stored content under another filename was answered as a duplicate
C4_Witness ==
    /\ response.kind = "upload"
    /\ response.duplicate
    /\ response.contract \in Stored
    /\ response.contract.filename # response.filename
    /\ response.contract.file_hash = calculateFileHash(response.content)

\* C5: unique content hash. No two records of the store have the same
\* file_hash, in every state of every interleaving.
C5_UniqueHash ==
    \A i, j \in 1..Len(contracts) :
        i # j => contracts[i].file_hash # contracts[j].file_hash

\* this step answers an update-company request with success
UpdateSucceeds ==
    /\ response'.seq # response.seq
    /\ response'.kind = "update"
    /\ response'.status = 200

\* C8: degraded update. No step changes the health_dimensions or the
\* health_score of a stored record that has no file_id, and a successful
\* update-company of such a record stores the new seller_company, the new
\* company_data and a later last_updated.
C8_DegradedUpdate ==
    [][ \A old \in Stored :
          old.file_id = <<>> =>
             \A k \in 1..Len(contracts') :
                contracts'[k].contract_id = old.contract_id =>
                   /\ contracts'[k].health_dimensions = old.health_dimensions
                   /\ contracts'[k].health_score = old.health_score
                   /\ (UpdateSucceeds /\ response'.id = old.contract_id) =>
                         /\ contracts'[k].seller_company = response'.new_company_name
                         /\ contracts'[k].company_data = CompanyData(response'.new_company_name)
                         /\ contracts'[k].last_updated > old.last_updated ]_vars

ValidDimension(v) == v.t = "number" /\ v.n >= 0 /\ v.n <= 100

\* C9: stored dimensions are always valid. Every record of the store has
\* mad, mao, maa and map present, numeric and within [0, 100].
C9_StoredDimensionsValid ==
    \A c \in Stored :
        \A x \in {"mad", "mao", "maa", "map"} : ValidDimension(c.health_dimensions[x])

\* the first of mad, mao, maa, map that is missing, non-numeric, NaN, below 0
\* or above 100 in the evaluation; "" when there is none
FirstOffending(result) ==
    LET bad(x) == \/ result.dimsKind # "object"
                  \/ ~ValidDimension(result.dimensions[x])
    IN  IF bad("mad") THEN "mad"
        ELSE IF bad("mao") THEN "mao"
        ELSE IF bad("maa") THEN "maa"
        ELSE IF bad("map") THEN "map"
        ELSE ""

\* the step in which the upload req receives the evaluation result, which is
\* an object but has no valid dimensions
InvalidEvaluationStep(req, result) ==
    /\ UploadAnalyze(req, result)
    /\ result.kind = "object"
    /\ FirstOffending(result) # ""

\* the error answer of such a step: nothing scored, nothing stored
RejectedUnscored(req) ==
    /\ contracts' = contracts
    /\ req \notin requests'
    /\ response'.seq = req.seq
    /\ response'.status = 500
    /\ response'.success = "false"
    /\ response'.scoreCalls = 0

MaxMembers == 2
MaxRawLen == 3

Keys == {<<"a">>, <<"map">>, <<"overall_recommendation">>}

LeafValues ==
    { JString(<<"x">>),
      JString(<<"http", ":", "/", "/", "x">>),
      JString(<<"/", "*", "x", "*", "/">>),
      JNumber(<<"1">>) }

Values ==
    LeafValues \cup { JArray(<<Member(<<>>, JNumber(<<"1">>))>>),
                      JObject(<<Member(<<"b">>, JString(<<"x">>))>>) }

Members == { Member(key, val) : key \in Keys, val \in Values }

\* the well-formed objects: up to MaxMembers members, no key twice
Objects ==
    UNION { { JObject(k) : k \in { m \in [1..n -> Members] :
                                     \A i, j \in 1..n : i # j => m[i].key # m[j].key } }
            : n \in 1..MaxMembers }

\* o written out with a comma after every member and every element
RECURSIVE Stringify(_)
RECURSIVE StringifyAll(_, _, _)
StringifyAll(k, i, keyed) ==
    IF i > Len(k) THEN <<>>
    ELSE (IF keyed THEN <<Quote>> \o k[i].key \o <<Quote, ":">> ELSE <<>>)
         \o Stringify(k[i].val) \o <<",">> \o StringifyAll(k, i + 1, keyed)

Stringify(v) ==
    CASE v.t = "object" -> <<"{">> \o StringifyAll(v.k, 1, TRUE) \o <<"}">>
      [] v.t = "array"  -> <<"[">> \o StringifyAll(v.k, 1, FALSE) \o <<"]">>
      [] v.t = "string" -> <<Quote>> \o v.s \o <<Quote>>
      [] OTHER          -> v.s

Fenced(body, tagged, prose) ==
       (IF prose THEN <<"Here", ":", " ">> ELSE <<>>)
    \o Fence \o (IF tagged THEN <<"json">> ELSE <<>>) \o <<NL>>
    \o body \o <<NL>> \o Fence
    \o (IF prose THEN <<" ", "thanks">> ELSE <<>>)

FencedReplies ==
    { Fenced(Stringify(o), tagged, prose) : o \in Objects, tagged \in BOOLEAN, prose \in BOOLEAN }

RawAlphabet == {"{", "}", Quote, ":", "a", "1"}

RawTexts == UNION { [1..n -> RawAlphabet] : n \in 0..MaxRawLen }

\* values whose strings hold what the repairs and the fence pattern look
\* for: a line comment, a block comment, a comma before a brace, and a
\* fenced object
DirectValues ==
    { JString(<<"http", ":", "/", "/", "x">>),
      JString(<<"/", "*", "x", "*", "/">>),
      JString(<<",", "}">>),
      JString(Fence \o <<"{", "}">> \o Fence),
      JNumber(<<"1">>),
      JObject(<<Member(<<"b">>, JString(<<",", "}", "/", "/">>))>>) }

DirectMembers == { Member(key, val) : key \in Keys, val \in DirectValues }

DirectObjects ==
    UNION { { JObject(k) : k \in { m \in [1..n -> DirectMembers] :
                                     \A i, j \in 1..n : i # j => m[i].key # m[j].key } }
            : n \in 1..MaxMembers }

\* v written out as JSON.stringify writes it
RECURSIVE StringifyStrict(_)
RECURSIVE StringifyStrictAll(_, _, _)
StringifyStrictAll(k, i, keyed) ==
    IF i > Len(k) THEN <<>>
    ELSE (IF i > 1 THEN <<",">> ELSE <<>>)
         \o (IF keyed THEN <<Quote>> \o k[i].key \o <<Quote, ":">> ELSE <<>>)
         \o StringifyStrict(k[i].val) \o StringifyStrictAll(k, i + 1, keyed)

StringifyStrict(v) ==
    CASE v.t = "object" -> <<"{">> \o StringifyStrictAll(v.k, 1, TRUE) \o <<"}">>
      [] v.t = "array"  -> <<"[">> \o StringifyStrictAll(v.k, 1, FALSE) \o <<"]">>
      [] v.t = "string" -> <<Quote>> \o v.s \o <<Quote>>
      [] OTHER          -> v.s

\* replies that are valid JSON as they stand
DirectTexts == { StringifyStrict(o) : o \in DirectObjects }

\* fenced replies whose one member may hold a fence of its own, so that
\* the fence pattern can stop inside a string
FencedDirectReplies ==
    { Fenced(Stringify(JObject(<<m>>)), tagged, prose) :
         m \in DirectMembers, tagged \in BOOLEAN, prose \in BOOLEAN }

\* the explanation the reply gives for map: plain text, text with a comma,
\* with a URL, with a brace and a comma
Explanations ==
    { <<"x">>, <<"x", ",", "y">>, <<"http", ":", "/", "/", "x">>, <<"a", "}", ",", "b">> }

QuotedField(name) == <<Quote, name, Quote, ":">>

\* the dimension_explanations object with its members, closing brace left out
OpenExplanations(mapText) ==
       QuotedField("dimension_explanations") \o <<"{">>
    \o QuotedField("mad") \o <<Quote, "x", Quote, ",">>
    \o QuotedField("mao") \o <<Quote, "x", Quote, ",">>
    \o QuotedField("maa") \o <<Quote, "x", Quote, ",">>
    \o QuotedField("map") \o <<Quote>> \o mapText \o <<Quote>>

\* the reply of the analysis, closed properly (closed) or with the closing
\* brace of dimension_explanations left out, so that overall_recommendation
\* follows the map explanation directly
AnalysisReply(mapText, closed, spaced, scored) ==
       <<"{">>
    \o (IF scored THEN QuotedField("dimensions") \o <<"{">> \o QuotedField("map")
                       \o <<"1", "}", ",">>
                  ELSE <<>>)
    \o OpenExplanations(mapText)
    \o (IF closed THEN <<"}">> ELSE <<>>)
    \o <<",">> \o (IF spaced THEN <<NL, " ", " ">> ELSE <<>>)
    \o QuotedField("overall_recommendation") \o <<Quote, "x", Quote, "}">>

AnalysisReplies ==
    { AnalysisReply(e, closed, spaced, scored) :
         e \in Explanations, closed \in BOOLEAN, spaced \in BOOLEAN, scored \in BOOLEAN }

Texts == FencedReplies \cup RawTexts \cup DirectTexts \cup FencedDirectReplies
         \cup AnalysisReplies

InitExtract ==
    /\ StoreIdle
    /\ ScoreIdle
    /\ text \in Texts
    /\ extracted = NotExtracted

Extract ==
    /\ extracted = NotExtracted
    /\ extracted' = extractJSON(text)
    /\ UNCHANGED <<contracts, requests, response, clock, arrived, idCounter,
                   dimsA, resA, dimsB, resB, text>>

NextExtract == Extract

SpecExtract == InitExtract /\ [][NextExtract]_vars

\* C6 (extractor round trip): when the text is a well-formed object written
\* with trailing commas inside a json-tagged fence between prose, extractJSON
\* returns an object deep-equal to that object.
C6_RoundTrip ==
    \A o \in Objects :
        (text = Fenced(Stringify(o), TRUE, TRUE) /\ extracted # NotExtracted)
            => extracted = Returned(o)

\* C7 (diagnosable extraction failure): whenever extractJSON throws, what it
\* throws carries the JSON parser's message and a prefix of the text.
C7_DiagnosableFailure ==
    extracted.outcome = "thrown" =>
        /\ extracted.error.parserMessage # NoMessage
        /\ \E n \in 0..Len(text) : extracted.error.prefix = SubSeq(text, 1, n)
        /\ text # <<>> => extracted.error.prefix # <<>>

(***************************************************************************)
(* Further claims about the store and the handlers.                        *)
(***************************************************************************)
\* this step ends a request by saving a record: the answer carries the
\* record handed to saveContract
Saves ==
    /\ response'.seq # response.seq
    /\ response'.kind \in {"upload", "update"}
    /\ response'.status = 200
    /\ ~response'.duplicate
    /\ response'.scoreCalls = 1

\* the positions of the store that hold a record with this contract_id
PositionsOf(contractId) == {k \in 1..Len(contracts) : contracts[k].contract_id = contractId}

\* C11: upsert. A save of r on a store that holds a record with r's
\* contract_id puts r, whole, in that record's position and leaves the size
\* and every other record as they were; on a store without such a record
\* the store becomes the old store with r appended.
C11_Upsert ==
    [][ Saves =>
          LET r == response'.contract
              at == PositionsOf(r.contract_id)
          IN  IF at # {}
              THEN /\ Len(contracts') = Len(contracts)
                   /\ \A k \in 1..Len(contracts) :
                         contracts'[k] = IF k \in at THEN r ELSE contracts[k]
              ELSE contracts' = Append(contracts, r) ]_vars

\* an update replaced the first of two records and the second is still second
C11_Witness ==
    /\ response.kind = "update"
    /\ response.status = 200
    /\ Len(contracts) = 2
    /\ contracts[1] = response.contract
    /\ contracts[1].last_updated > contracts[2].upload_date
    /\ contracts[2].contract_id # contracts[1].contract_id

\* the store without the records of this contract_id, the others in order
Without(contractId) == SelectSeq(contracts, LAMBDA c : c.contract_id # contractId)

\* C12: delete by identity. DELETE /contracts/:id and POST
\* /contracts/:id/replace remove exactly the record with that id and leave
\* every other record as it was and in order, so that no record has the id
\* afterwards; when no record has the id they answer 404 and leave the
\* store alone. GET /contracts/:id answers 404 when no record has the id.
C12_DeleteById ==
    [][ \A id \in ContractIds :
          /\ (Delete(id) \/ Replace(id)) =>
                IF PositionsOf(id) # {}
                THEN /\ response'.status = 200
                     /\ Len(contracts') = Len(contracts) - 1
                     /\ contracts' = Without(id)
                     /\ ~Found(findContractById(contracts', id))
                ELSE /\ response'.status = 404
                     /\ contracts' = contracts
          /\ (GetContract(id) /\ PositionsOf(id) = {}) => response'.status = 404 ]_vars

\* one of two records was deleted and the other is still there
C12_Witness ==
    /\ response.kind \in {"delete", "replace"}
    /\ response.status = 200
    /\ Len(contracts) = 1
    /\ contracts[1].contract_id # response.id

\* C13: identity and content hash are immutable. No step changes the
\* file_hash, file_id, filename or upload_date of a record that stays in the
\* store under its contract_id, whichever path of update-company runs.
C13_IdentityImmutable ==
    [][ \A old \in Stored :
          \A k \in 1..Len(contracts') :
             contracts'[k].contract_id = old.contract_id =>
                /\ contracts'[k].file_hash = old.file_hash
                /\ contracts'[k].file_id = old.file_id
                /\ contracts'[k].filename = old.filename
                /\ contracts'[k].upload_date = old.upload_date ]_vars

\* a record was re-scored under a new company name and still carries the
\* hash, file_id, filename and upload_date of its upload
C13_Witness ==
    /\ response.kind = "update"
    /\ response.status = 200
    /\ \E c \in Stored :
          /\ c.contract_id = response.id
          /\ c.seller_company = "Beta"
          /\ c.file_id # <<>>
          /\ c.last_updated > c.upload_date
          /\ c.file_hash = calculateFileHash(1)
          /\ c.filename = <<"a", ".pdf">>

\* the positions of the trace at which a call leaves the process
ExternalPositions(trace) == {i \in 1..Len(trace) : trace[i] \in ExternalCalls}

\* the hash is computed first and the store searched second, before any
\* external call of the trace
GateFirst(trace) ==
    ExternalPositions(trace) # {} =>
        /\ Len(trace) >= 2
        /\ trace[1] = "calculateFileHash"
        /\ trace[2] = "findContractByHash"
        /\ \A i \in ExternalPositions(trace) : i > 2

\* C14: duplicate gate ordering. Every upload request, in flight or
\* answered, computed the file hash and searched the store before its first
\* call to the inference or search service, and an upload that arrives
\* while a record with its hash is stored makes no external call at all.
C14_GateBeforeCalls ==
    /\ [](/\ \A r \in requests : r.kind = "upload" => GateFirst(r.trace)
          /\ response.kind = "upload" => GateFirst(response.trace))
    /\ [][ (/\ Arrives("upload")
             /\ \E c \in Stored : c.file_hash = calculateFileHash(ArrivingContent))
            => /\ requests' = requests
               /\ response'.seq = arrived'
               /\ ExternalPositions(response'.trace) = {} ]_vars

\* an upload went through all its external calls and was stored, and its
\* first two steps were the hash and the lookup
C14_Witness ==
    /\ response.kind = "upload"
    /\ response.status = 200
    /\ ~response.duplicate
    /\ Cardinality(ExternalPositions(response.trace)) = 8
    /\ SubSeq(response.trace, 1, 2) = <<"calculateFileHash", "findContractByHash">>

\* in this step an external call of the request req fails: one of the five
\* searches is rejected, or a call to the inference service throws
ExternalFailure(req) ==
    \/ \E rejected \in SearchOutcomes \ {0} :
          UploadBackground(req, rejected) \/ UpdateBackground(req, rejected)
    \/ UploadAnalyze(req, EvalThrows)
    \/ UpdateAnalyze(req, EvalThrows)
    \/ UploadBasicInfo(req, "throw")
    \/ (UploadFile(req, FALSE) /\ ExtName(req.filename) \notin {".docx", ".doc"})

\* C15: all-or-nothing on external failure. When a search or an inference
\* call of an upload or update-company request fails, the request ends in
\* that step with an error response and the step leaves the store as it
\* was: no record created, none changed.
C15_AllOrNothing ==
    [][ \A req \in requests :
          ExternalFailure(req) =>
             /\ req \notin requests'
             /\ response'.seq = req.seq
             /\ response'.status = 500
             /\ response'.success # "true"
             /\ contracts' = contracts ]_vars

\* an update-company to another name failed and the record still has its
\* previous company and was never updated
C15_Witness ==
    /\ response.kind = "update"
    /\ response.status = 500
    /\ response.new_company_name = "Beta"
    /\ \E c \in Stored :
          /\ c.contract_id = response.id
          /\ c.seller_company = "Acme"
          /\ c.company_data = CompanyData("Acme")
          /\ c.last_updated = 0

\* C16: list projection. Every entry GET /contracts returns carries
\* contract_id, filename, seller_company, health_score, health_tier,
\* health_tier_label, health_dimensions, document_type and upload_date, and
\* never dimension_explanations, overall_recommendation, raw_data or
\* company_data.
C16_ListProjection ==
    response.kind = "list" =>
        \A k \in 1..Len(response.contracts) :
            /\ {"contract_id", "filename", "seller_company", "health_score", "health_tier",
                "health_tier_label", "health_dimensions", "document_type", "upload_date"}
                   \subseteq DOMAIN response.contracts[k]
            /\ DOMAIN response.contracts[k]
                   \cap {"dimension_explanations", "overall_recommendation", "raw_data",
                         "company_data"} = {}

(***************************************************************************)
(* Further claims about calculateHealthScore.                              *)
(***************************************************************************)
\* the results of calculateHealthScore this state holds: those of the
\* scoring harness and the one the last response reports
ScoreResults ==
    {r \in {resA, resB} : Scored(r)}
    \cup (IF response.scoreCalls = 1
          THEN {[NotScored EXCEPT !.score = response.contract.health_score,
                                  !.tier = response.contract.health_tier,
                                  !.tierLabel = response.contract.health_tier_label,
                                  !.dimensions = response.contract.health_dimensions,
                                  !.breakdown = response.contract.score_breakdown]}
          ELSE {})

\* the tier and the label the bands give for an integer score
BandOf(score) ==
    IF score >= 90 THEN <<"S", "wangzhe">>
    ELSE IF score >= 80 /\ score <= 89 THEN <<"A", "youzhi">>
    ELSE IF score >= 70 /\ score <= 79 THEN <<"B", "biaozhun">>
    ELSE IF score >= 60 /\ score <= 69 THEN <<"C", "guancha">>
    ELSE <<"D", "taotai">>

\* C17: tier mapping. The score of every result is an integer in [0, 100],
\* its tier is the band of the score and its tierLabel the label of the tier.
C17_TierMapping ==
    \A r \in ScoreResults :
        /\ r.score.t = "number"
        /\ r.score.n \in 0..100
        /\ <<r.tier, r.tierLabel>> = BandOf(r.score.n)

\* the bonus the rule gives for the dimension set d
DocumentedBonus(d) ==
    IF d.mad.n < 5 /\ d.mao.n > 85 THEN 8
    ELSE IF d.mad.n < 5 /\ d.mao.n > 75 /\ d.mao.n <= 85 THEN 5
    ELSE 0

\* C18: bonus rule. For every valid dimension set breakdown.bonusPoints is
\* 8 when mad < 5 and mao > 85, 5 when mad < 5 and 75 < mao <= 85, and 0
\* otherwise.
C18_BonusRule ==
    /\ Scored(resA) => resA.breakdown.bonusPoints = DocumentedBonus(dimsA)
    /\ Scored(resB) => resB.breakdown.bonusPoints = DocumentedBonus(dimsB)

\* a set with mad 4 and mao 86 was scored with bonus 8, and the same set
\* with mao 85 with bonus 5
C18_Witness ==
    /\ Scored(resA) /\ Scored(resB)
    /\ dimsA.mad.n = 4 /\ dimsA.mao.n = 86 /\ resA.breakdown.bonusPoints = 8
    /\ dimsB.mad.n = 4 /\ dimsB.mao.n = 85 /\ resB.breakdown.bonusPoints = 5

C20_UpdateGuards ==
    [][ \A id \in ContractIds, name \in BlankNames \cup NewNames :
          UpdateStart(id, name) =>
             LET blank == name \in {"<undefined>", "", "  "}
                 refused == /\ response'.seq = arrived'
                            /\ requests' = requests
                            /\ ExternalPositions(response'.trace) = {}
                            /\ response'.scoreCalls = 0
                            /\ contracts' = contracts
             IN  /\ blank => (refused /\ response'.status = 400)
                 /\ (~blank /\ PositionsOf(id) = {}) => (refused /\ response'.status = 404) ]_vars

\* an update-company for an id no record has was answered 404 while the
\* store holds another record
C20_Witness ==
    /\ response.kind = "update"
    /\ response.status = 404
    /\ response.new_company_name \in NewNames
    /\ Len(contracts) >= 1
    /\ PositionsOf(response.id) = {}
    /\ ExternalPositions(response.trace) = {}

(***************************************************************************)
(* Claims about what the scorer reports and what the store keeps of it.    *)
(***************************************************************************)
\* the records of the store that a handler of this server scored from an
\* evaluation: raw_data is the evaluation, health_dimensions what was kept
ScoredFromEvaluation ==
    {c \in Stored : c.raw_data \in Evaluations /\ c.raw_data.dimsKind = "object"}

\* C21: no default substitution in the scorer. The dimensions
\* calculateHealthScore returns for a valid set are the supplied values, a
\* supplied 0 included, and a record scored from a valid evaluation keeps
\* the values of that evaluation as its health_dimensions.
C21_NoDefaultSubstitution ==
    /\ Scored(resA) => resA.dimensions = dimsA
    /\ Scored(resB) => resB.dimensions = dimsB
    /\ \A c \in ScoredFromEvaluation :
          (\A x \in {"mad", "mao", "maa", "map"} : ValidDimension(c.raw_data.dimensions[x]))
             => c.health_dimensions = c.raw_data.dimensions

\* the score rebuilt from a reported breakdown, in tenths as reported:
\* safetyScore + valueScore + bonusPoints, cut to 59 when mad > 35, clamped
\* to [0, 100] and rounded to the nearest integer
Rebuilt(breakdown, mad) ==
    LET sum10 == breakdown.safetyScore.n + breakdown.valueScore.n + 10 * breakdown.bonusPoints
        cap10 == IF mad.n > 35 THEN Min(sum10, 59 * 10) ELSE sum10
    IN  (Min(100 * 10, Max(0, cap10)) + 5) \div 10

\* C22: the breakdown explains the score. The score of every scored valid
\* set is the score rebuilt from the reported breakdown alone.
C22_BreakdownExplains ==
    /\ Scored(resA) => resA.score = Num(Rebuilt(resA.breakdown, dimsA.mad))
    /\ Scored(resB) => resB.score = Num(Rebuilt(resB.breakdown, dimsB.mad))

\* the score fields of the record c are those calculateHealthScore gives for
\* the health_dimensions of c
ScoreDerived(c) ==
    LET r == calculateHealthScore(c.health_dimensions)
    IN  /\ c.health_score = r.score
        /\ c.health_tier = r.tier
        /\ c.health_tier_label = r.tierLabel
        /\ c.score_breakdown = r.breakdown

C24_UniqueIdentity ==
    \A i, j \in 1..Len(contracts) :
        i # j => contracts[i].contract_id # contracts[j].contract_id

\* two uploads of different content are stored, under two contract ids
C24_Witness ==
    /\ response.kind = "upload"
    /\ response.status = 200
    /\ Len(contracts) = 2
    /\ contracts[1].file_hash # contracts[2].file_hash
    /\ contracts[1].contract_id # contracts[2].contract_id
    /\ contracts[2] = response.contract

\* C25: upsert precondition under interleaving. Every record handed to
\* saveContract has a contract_id that was never stored before, or one the
\* store holds at that moment with the same file_hash; an update-company
\* whose record was deleted while it was in flight writes nothing back.
C25_UpsertPrecondition ==
    [][ Saves =>
          LET r == response'.contract
          IN  \/ r.contract_id > idCounter
              \/ \E k \in PositionsOf(r.contract_id) : contracts[k].file_hash = r.file_hash ]_vars

(***************************************************************************)
(* Further claims about extractJSON.                                       *)
(***************************************************************************)
\* C26: direct parse wins. When the text is valid JSON as it stands,
\* extractJSON returns the result of parsing the whole text: the object that
\* was written out comes back unaltered, whatever its strings hold.
C26_DirectParseWins ==
    extracted # NotExtracted =>
        /\ JSONparse(text).ok => extracted = Returned(JSONparse(text).val)
        /\ \A o \in DirectObjects : text = StringifyStrict(o) => extracted = Returned(o)

\* an object whose strings hold a line comment and a fenced object came
\* back as written
C26_Witness ==
    /\ extracted.outcome = "returned"
    /\ text \in DirectTexts
    /\ \E i, j \in 1..Len(extracted.value.k) :
          /\ extracted.value.k[i].val = JString(<<"http", ":", "/", "/", "x">>)
          /\ extracted.value.k[j].val = JString(Fence \o <<"{", "}">> \o Fence)

\* the parses extractJSON attempts on the text t, in the order of the claim:
\* the text, the first fenced block, that block repaired, the slice from the
\* first { to the last }, that slice repaired
Attempts(t) ==
    LET jsonMatch == FenceMatch(t, 1)
        firstBrace == IndexOf(t, <<"{">>, 1)
        lastBrace == LastIndexOf(t, <<"}">>, Len(t))
        jsonStr == SubSeq(t, firstBrace, lastBrace)
    IN  <<JSONparse(t)>>
        \o (IF jsonMatch.found
            THEN <<JSONparse(jsonMatch.group), ParseRepaired(jsonMatch.group)>>
            ELSE <<>>)
        \o (IF firstBrace # 0 /\ lastBrace > firstBrace
            THEN <<JSONparse(jsonStr), ParseRepaired(jsonStr)>>
            ELSE <<>>)

\* the positions of the attempts that parse
Successes(attempts) == {i \in 1..Len(attempts) : attempts[i].ok}

\* C27: strategy chain. extractJSON returns the value of the first attempt
\* that parses, in the order direct, fenced, fenced repaired, brace slice,
\* brace slice repaired, and throws only when no attempt parses; a fenced
\* block that cannot be repaired does not end the extraction.
C27_StrategyChain ==
    extracted # NotExtracted =>
        LET attempts == Attempts(text)
            parsing == Successes(attempts)
        IN  IF parsing = {}
            THEN extracted.outcome = "thrown"
            ELSE LET first == CHOOSE i \in parsing : \A j \in parsing : i <= j
                 IN  extracted = Returned(attempts[first].val)

\* the text holds a fenced block that does not parse even when repaired, and
\* the repaired brace slice was returned
C27_Witness ==
    /\ extracted.outcome = "returned"
    /\ FenceMatch(text, 1).found
    /\ Len(Attempts(text)) = 5
    /\ Successes(Attempts(text)) = {5}

\* C28: the extracted value is an object. Whenever extractJSON returns, what
\* it returns is a JSON object: not a number, a string or an array.
C28_ReturnsObject ==
    extracted.outcome = "returned" => extracted.value.t = "object"

\* the object an analysis reply stands for
AnalysisObject(mapText, scored) ==
    JObject( (IF scored
              THEN <<Member(<<"dimensions">>, JObject(<<Member(<<"map">>, JNumber(<<"1">>))>>))>>
              ELSE <<>>)
             \o <<Member(<<"dimension_explanations">>,
                         JObject(<<Member(<<"mad">>, JString(<<"x">>)),
                                   Member(<<"mao">>, JString(<<"x">>)),
                                   Member(<<"maa">>, JString(<<"x">>)),
                                   Member(<<"map">>, JString(mapText))>>)),
                  Member(<<"overall_recommendation">>, JString(<<"x">>))>> )

\* the text between the last "map" before "overall_recommendation" and
\* "overall_recommendation" itself
BetweenMapAndOverall(t) ==
    LET o == IndexOf(t, QuotedOverallRecommendation, 1)
        m == LastIndexOf(t, QuotedMap, o)
    IN  SubSeq(t, m, o - 1)

\* C29: structural repair. For a reply that is valid JSON except that
\* dimension_explanations lacks its closing brace, extractJSON returns the
\* object with overall_recommendation at the top level and mad, mao, maa, map
\* in dimension_explanations; fixJSONStructure leaves a text alone that has
\* no "overall_recommendation", no "map" before it, or a }, between them.
C29_StructuralRepair ==
    /\ extracted # NotExtracted =>
          \A e \in Explanations, spaced \in BOOLEAN, scored \in BOOLEAN :
              text = AnalysisReply(e, FALSE, spaced, scored)
                 => extracted = Returned(AnalysisObject(e, scored))
    /\ (\/ IndexOf(text, QuotedOverallRecommendation, 1) = 0
        \/ LastIndexOf(text, QuotedMap, IndexOf(text, QuotedOverallRecommendation, 1)) = 0
        \/ IndexOf(BetweenMapAndOverall(text), <<"}", ",">>, 1) # 0)
          => fixJSONStructure(text) = text

(***************************************************************************)
(* Claims about writes of overlapping requests.                            *)
(***************************************************************************)
\* this step answers DELETE /contracts/:id or POST /contracts/:id/replace
\* for this id with success
Removes(contractId) ==
    /\ response'.seq = arrived'
    /\ arrived' = arrived + 1
    /\ response'.kind \in {"delete", "replace"}
    /\ response'.status = 200
    /\ response'.id = contractId

\* C30: no lost write. Every step keeps every stored record's contract_id
\* and file_hash in the store, unless the step is a successful delete or
\* replace of that id; a successful upload adds its record to the store as
\* it is at that moment, whatever other requests did while it waited.
C30_NoLostWrite ==
    [][ /\ \A old \in Stored :
             \/ \E k \in 1..Len(contracts') :
                   /\ contracts'[k].contract_id = old.contract_id
                   /\ contracts'[k].file_hash = old.file_hash
             \/ Removes(old.contract_id)
        /\ (Saves /\ response'.kind = "upload")
              => contracts' = Append(contracts, response'.contract) ]_vars

\* two uploads of different content overlapped (the first to arrive was the
\* last to finish) and both are stored
C30_Witness ==
    /\ response.kind = "upload"
    /\ response.status = 200
    /\ response.seq = 1
    /\ Len(contracts) = 2
    /\ contracts[1].upload_date > 0
    /\ contracts[2] = response.contract
    /\ contracts[1].file_hash # contracts[2].file_hash

====
